---------------------------- MODULE Spec2Model ----------------------------
(***************************************************************************)
(* A model of the evaluation core of the detector: box geometry and IOU    *)
(* (metrics.py, EvalMetrics.boxes_iou / get_corners_from_labels), the      *)
(* per-image matcher (get_iou_for_image / get_metrics_params_from_iou),    *)
(* the dataset aggregator (get_metrics_params), the metrics calculator     *)
(* (calculate_metrics) and the training loss (network.py, custom_loss).    *)
(*                                                                         *)
(* Numbers.  Pixel coordinates are held in fixed point, in half pixels, so *)
(* that (cx - w/2) * image_size is an integer.  Normalised coordinates are *)
(* held in hundredths (50 is 0.5).  A floating-point quotient is held as   *)
(* an exact fraction <<num, den>> in lowest terms; <<0, 0>> is NaN, the    *)
(* value numpy gives for 0.0 / 0.0, and <<1, 0>> is +inf.  Rounding is not *)
(* modelled.                                                               *)
(***************************************************************************)
EXTENDS Integers, Sequences, FiniteSets, TLC

VARIABLES
    pc,         \* where the modelled call stands
    args,       \* the arguments of the call in progress
    ret,        \* what the call returned (or raised)
    images,     \* dataset pass: the (label, model output) pairs consumed so far,
                \* each with the 5-tuple the per-image matcher returned for it
    totals      \* dataset pass: the running totals of get_metrics_params

vars == <<pc, args, ret, images, totals>>

None == <<>>

-----------------------------------------------------------------------------
(* Bounds of the model.                                                    *)

\* boxes_iou is explored on every pair of boxes with coordinates in 0..MaxCoord
MaxCoord == 2

\* the per-image matcher is explored on labels of NumCells grid cells and on
\* up to MaxPred predicted rows
NumCells == 2
MaxPred == 2

\* a dataset pass consumes up to MaxImages images
MaxImages == 3

\* calculate_metrics is explored on counts up to MaxCount
MaxCount == 2

\* custom_loss is explored on tensors of up to MaxLossCells cells (batch
\* entries times grid cells)
MaxLossCells == 2

\* each of the three pickled splits holds up to MaxSplitImages images
MaxSplitImages == 2

-----------------------------------------------------------------------------
(* Floating-point values as exact fractions.                               *)

Min(a, b) == IF a <= b THEN a ELSE b
Max(a, b) == IF a >= b THEN a ELSE b

RECURSIVE Gcd(_, _)
Gcd(a, b) == IF b = 0 THEN a ELSE Gcd(b, a % b)

NaN == <<0, 0>>
Zero == <<0, 1>>
One == <<1, 1>>

IsNaN(x) == x[1] = 0 /\ x[2] = 0

\* a / b as a float, where the division does not raise: 0/0 is nan and
\* x/0 is inf with the sign of x
FDiv(a, b) ==
    IF b = 0 THEN (IF a = 0 THEN NaN ELSE IF a > 0 THEN <<1, 0>> ELSE <<-1, 0>>)
    ELSE LET sa == IF b < 0 THEN -a ELSE a
             sb == IF b < 0 THEN -b ELSE b
             g == Gcd(IF sa < 0 THEN -sa ELSE sa, sb)
         IN <<sa \div g, sb \div g>>

\* x >= y on floats: every comparison with NaN is False
FGeq(x, y) == ~IsNaN(x) /\ ~IsNaN(y) /\ x[1] * y[2] >= y[1] * x[2]
FLeq(x, y) == FGeq(y, x)

\* x + y on floats (NaN propagates)
FAdd(x, y) ==
    IF IsNaN(x) \/ IsNaN(y) THEN NaN
    ELSE FDiv(x[1] * y[2] + y[1] * x[2], x[2] * y[2])

-----------------------------------------------------------------------------
(* Configuration (EvalMetrics.__init__).                                   *)

image_size == 100
iou_threshold == <<1, 2>>

-----------------------------------------------------------------------------
(* Box geometry: EvalMetrics.boxes_iou.  A box is a row whose first four   *)
(* columns are read as two corner points (column k of the code is k + 1).  *)

\* the mutant: the intersection is not subtracted from the union
UnionAreaSum(area_1, area_2, area_inter) == area_1 + area_2

\* line 254: the denominator area_1 + area_2 - area_inter
UnionArea(area_1, area_2, area_inter) == area_1 + area_2 - area_inter

\* line 256: iou[np.where(area_1 < 0) or np.where(area_2 < 0)] = 0.
\* np.where(cond) is a one-element tuple, which is truthy whatever it holds,
\* so the "or" yields its left operand and only area_1 selects the entries.
GuardSelects(area_1, area_2) ==
    LET left == area_1 < 0
        right == area_2 < 0
        tupleIsTruthy == TRUE
    IN IF tupleIsTruthy THEN left ELSE right

\* one element of the elementwise computation of lines 234-258
BoxIouAt(b1, b2) ==
    LET ymin_1 == Min(b1[1], b1[3])
        xmin_1 == Min(b1[2], b1[4])
        ymax_1 == Max(b1[1], b1[3])
        xmax_1 == Max(b1[2], b1[4])
        ymin_2 == Min(b2[1], b2[3])
        xmin_2 == Min(b2[2], b2[4])
        ymax_2 == Max(b2[1], b2[3])
        xmax_2 == Max(b2[2], b2[4])
        area_1 == (ymax_1 - ymin_1) * (xmax_1 - xmin_1)
        area_2 == (ymax_2 - ymin_2) * (xmax_2 - xmin_2)
        ymin_inter == Max(ymin_1, ymin_2)
        xmin_inter == Max(xmin_1, xmin_2)
        ymax_inter == Min(ymax_1, ymax_2)
        xmax_inter == Min(xmax_1, xmax_2)
        area_inter == Max(ymax_inter - ymin_inter, 0)
                        * Max(xmax_inter - xmin_inter, 0)
        iou == FDiv(area_inter, UnionArea(area_1, area_2, area_inter))
    IN IF GuardSelects(area_1, area_2) THEN Zero ELSE iou

\* boxes_iou(box1, box2): two batches of equal length, element by element
boxes_iou(box1, box2) == [k \in 1..Len(box2) |-> BoxIouAt(box1[k], box2[k])]

\* the area of a corner-form box after its endpoints are ordered
BoxArea(b) == (Max(b[1], b[3]) - Min(b[1], b[3])) * (Max(b[2], b[4]) - Min(b[2], b[4]))

-----------------------------------------------------------------------------
(* SpecIou: boxes_iou called on one pair of corner-form boxes.             *)

Coords == 0..MaxCoord
CornerBoxes == {<<a, b, c, d>> : a \in Coords, b \in Coords, c \in Coords, d \in Coords}

InitIou ==
    /\ pc = "iou_call"
    /\ \E b1 \in CornerBoxes, b2 \in CornerBoxes : args = <<b1, b2>>
    /\ ret = None
    /\ images = None
    /\ totals = None

CallBoxesIou ==
    /\ pc = "iou_call"
    /\ ret' = boxes_iou(<<args[1]>>, <<args[2]>>)
    /\ pc' = "iou_ret"
    /\ UNCHANGED <<args, images, totals>>

NextIou == CallBoxesIou

SpecIou == InitIou /\ [][NextIou]_vars

\* C4: whenever boxes_iou is given a pair of which either box has zero (or
\* negative) area, both boxes of zero area included, the IOU it returns for
\* the pair is exactly 0.
C4_DegenerateIouIsZero ==
    (pc = "iou_ret" /\ (BoxArea(args[1]) <= 0 \/ BoxArea(args[2]) <= 0))
        => ret[1] = Zero

\* C6: for every corner-form box b of positive area, boxes_iou(b, b) is 1.
C6_SelfIouIsOne ==
    (pc = "iou_ret" /\ args[1] = args[2] /\ BoxArea(args[1]) > 0)
        => ret[1] = One

\* a box of positive area, given with swapped endpoints, compared with itself
C6_Witness ==
    /\ pc = "iou_ret"
    /\ args[1] = <<2, 0, 0, 1>>
    /\ args[2] = args[1]
    /\ ret[1] = One

-----------------------------------------------------------------------------
(* The per-image matcher.                                                  *)

\* lines 219-231: get_corners_from_labels, one row; the columns after the
\* first four are copied (corners = np.array(labels, copy=True))
CornersOfRow(row) ==
    [k \in 1..Len(row) |->
        CASE k = 1 -> ((2 * row[1] - row[3]) * image_size) \div 100
          [] k = 2 -> ((2 * row[2] - row[4]) * image_size) \div 100
          [] k = 3 -> ((2 * row[1] + row[3]) * image_size) \div 100
          [] k = 4 -> ((2 * row[2] + row[4]) * image_size) \div 100
          [] OTHER -> row[k]]

get_corners_from_labels(labels) == [i \in 1..Len(labels) |-> CornersOfRow(labels[i])]

\* line 156: gt = label[np.where(label[:, 4] == 1)]
RECURSIVE RowsWithObject(_)
RowsWithObject(label) ==
    IF label = <<>> THEN <<>>
    ELSE (IF Head(label)[5] = 1 THEN <<Head(label)>> ELSE <<>>)
            \o RowsWithObject(Tail(label))

\* YOLO.predict_boxes: the rows [cx, cy, w, h, ...] the network gives for the
\* image, in normalised centre form
predict_boxes(model_out) == model_out

\* line 161: pred[:, :4] = pred[:, :4] * self.image_size
ScaleRow(row) ==
    [k \in 1..Len(row) |-> IF k <= 4 THEN (2 * row[k] * image_size) \div 100 ELSE row[k]]

ScalePred(pred) == [j \in 1..Len(pred) |-> ScaleRow(pred[j])]

\* lines 170-182: get_iou_for_image.  The matrix keeps its shape, so that a
\* matrix of no rows still has pred.shape[0] columns.
get_iou_for_image(gt, pred) ==
    [ncols |-> Len(pred),
     rows  |-> [i \in 1..Len(gt) |->
                    boxes_iou([j \in 1..Len(pred) |-> gt[i]], pred)]]

\* np.amax of one row: NaN if the row holds a NaN, else its largest entry
RECURSIVE Amax(_)
Amax(row) ==
    IF Len(row) = 1 THEN row[1]
    ELSE LET rest == Amax(Tail(row))
             x == Head(row)
         IN IF IsNaN(x) \/ IsNaN(rest) THEN NaN
            ELSE IF FGeq(x, rest) THEN x ELSE rest

\* np.sum of a vector of floats
RECURSIVE FSum(_)
FSum(v) == IF v = <<>> THEN Zero ELSE FAdd(Head(v), FSum(Tail(v)))

\* the mutant: the threshold is exclusive
IsTrueBoxStrict(x) == FGeq(x, iou_threshold) /\ x # iou_threshold

\* line 192: iou_image >= self.iou_threshold
IsTrueBox(x) == FGeq(x, iou_threshold)

RECURSIVE TrueBoxes(_)
TrueBoxes(maxima) ==
    IF maxima = <<>> THEN <<>>
    ELSE (IF IsTrueBox(Head(maxima)) THEN <<Head(maxima)>> ELSE <<>>)
            \o TrueBoxes(Tail(maxima))

\* the mutant: the matrix is reduced whatever its shape
HasColumnsAlways(iou_image) == TRUE

\* line 185: iou_image.shape[1] != 0
HasColumns(iou_image) == iou_image.ncols # 0

\* lines 184-206: get_metrics_params_from_iou.  iou_np tells a numpy float
\* (np.sum's result) from the Python int 0 of the else branch.  np.amax over
\* an axis of length 0 raises ValueError.
get_metrics_params_from_iou(iou_image, gt, pred) ==
    IF HasColumns(iou_image) THEN
        IF iou_image.ncols = 0 THEN [raised |-> "ValueError"]
        ELSE
            LET maxima == [i \in 1..Len(iou_image.rows) |-> Amax(iou_image.rows[i])]
                true_boxes == TrueBoxes(maxima)
            IN [raised |-> "",
                iou    |-> FSum(true_boxes),
                iou_np |-> TRUE,
                gt_num |-> Len(gt),
                tp     |-> Len(true_boxes),
                fp     |-> Len(pred) - Len(true_boxes),
                fn     |-> Len(gt) - Len(true_boxes)]
    ELSE
        [raised |-> "",
         iou    |-> Zero,
         iou_np |-> FALSE,
         gt_num |-> Len(gt),
         tp     |-> 0,
         fp     |-> Len(pred),
         fn     |-> Len(gt)]

\* lines 155-168: get_one_image_metrics_params, with what it computed on
\* the way
get_one_image_metrics_params(label, model_out) ==
    LET gt == get_corners_from_labels(RowsWithObject(label))
        pred == ScalePred(predict_boxes(model_out))
        iou_image == get_iou_for_image(gt, pred)
    IN [gt |-> gt, pred |-> pred, iou_image |-> iou_image,
        out |-> get_metrics_params_from_iou(iou_image, gt, pred)]

-----------------------------------------------------------------------------
(* SpecImage: get_one_image_metrics_params called on one image.            *)

\* sequences over S of length lo..hi
SeqsOf(S, lo, hi) == UNION {[1..n -> S] : n \in lo..hi}

\* label boxes, normalised centre form in hundredths: the box of the
\* scenario (corners 40,40,60,60), a box of zero width, and a box apart
LabelBoxes == {<<50, 50, 20, 20>>, <<50, 50, 0, 20>>, <<80, 80, 20, 20>>}

\* one grid cell of a label: [cx, cy, w, h, objectness]
LabelRows == {b \o <<o>> : b \in LabelBoxes, o \in {0, 1}}

\* rows the network may give: the scenario's box, rows that line 161 turns
\* into corners (40,40,60,60), (40,40,60,50) and (70,70,90,90), and a row
\* that boxes_iou reads as a box of zero area
ModelBoxes == {<<50, 50, 20, 20>>, <<40, 40, 60, 60>>, <<40, 40, 60, 50>>,
               <<70, 70, 90, 90>>, <<50, 50, 50, 20>>}

ModelRows == {b \o <<1>> : b \in ModelBoxes}

InitImage ==
    /\ pc = "image_call"
    /\ \E label \in SeqsOf(LabelRows, NumCells, NumCells),
          model_out \in SeqsOf(ModelRows, 0, MaxPred) :
            args = [label |-> label, model_out |-> model_out]
    /\ ret = None
    /\ images = None
    /\ totals = None

CallOneImage ==
    /\ pc = "image_call"
    /\ ret' = get_one_image_metrics_params(args.label, args.model_out)
    /\ pc' = "image_ret"
    /\ UNCHANGED <<args, images, totals>>

NextImage == CallOneImage

SpecImage == InitImage /\ [][NextImage]_vars

\* the entries of row i of the matrix
RowEntries(m, i) == {m.rows[i][j] : j \in 1..m.ncols}

\* row i has an entry that reaches the threshold and bounds the whole row:
\* its maximum, in the mathematical sense, is at least the threshold
RowMatches(m, i) ==
    \E x \in RowEntries(m, i) :
        /\ FGeq(x, iou_threshold)
        /\ \A y \in RowEntries(m, i) : FGeq(x, y)

RowMax(m, i) == CHOOSE x \in RowEntries(m, i) : \A y \in RowEntries(m, i) : FGeq(x, y)

MatchedRows(m) == {i \in 1..Len(m.rows) : RowMatches(m, i)}

RECURSIVE SumOfMaxima(_, _)
SumOfMaxima(m, I) ==
    IF I = {} THEN Zero
    ELSE LET i == CHOOSE k \in I : TRUE
         IN FAdd(RowMax(m, i), SumOfMaxima(m, I \ {i}))

\* C1: for an image with m >= 1 ground truths and n >= 1 predictions the
\* matcher returns gt_num = m, tp = the number of rows of the IOU matrix whose
\* maximum is at least iou_threshold, fp = n - tp, fn = m - tp, and iou = the
\* sum of exactly those maxima.
C1_MatcherCounts ==
    (pc = "image_ret" /\ Len(ret.gt) >= 1 /\ Len(ret.pred) >= 1) =>
        LET m == Len(ret.gt)
            n == Len(ret.pred)
            matched == MatchedRows(ret.iou_image)
        IN /\ ret.out.raised = ""
           /\ ret.out.gt_num = m
           /\ ret.out.tp = Cardinality(matched)
           /\ ret.out.fp = n - ret.out.tp
           /\ ret.out.fn = m - ret.out.tp
           /\ ret.out.iou = SumOfMaxima(ret.iou_image, matched)

\* two ground truths, two predictions; one row's maximum is exactly the
\* threshold and is counted, the other row's is below it
C1_Witness ==
    /\ pc = "image_ret"
    /\ Len(ret.gt) = 2 /\ Len(ret.pred) = 2
    /\ \E i \in 1..2 : /\ RowMatches(ret.iou_image, i)
                        /\ RowMax(ret.iou_image, i) = iou_threshold
    /\ ret.out.tp = 1 /\ ret.out.fp = 1 /\ ret.out.fn = 1
    /\ ret.out.iou = iou_threshold

\* C2: with no prediction the matcher returns, without an error,
\* (iou 0, gt_num m, tp 0, fp 0, fn m); with no ground truth it returns
\* (iou 0, gt_num 0, tp 0, fp n, fn 0).
C2_EmptySides ==
    pc = "image_ret" =>
        LET m == Len(ret.gt)
            n == Len(ret.pred)
        IN /\ n = 0 =>
                /\ ret.out.raised = ""
                /\ ret.out.iou = Zero /\ ret.out.gt_num = m
                /\ ret.out.tp = 0 /\ ret.out.fp = 0 /\ ret.out.fn = m
           /\ m = 0 =>
                /\ ret.out.raised = ""
                /\ ret.out.iou = Zero /\ ret.out.gt_num = 0
                /\ ret.out.tp = 0 /\ ret.out.fp = n /\ ret.out.fn = 0

\* ground truths and no prediction: every ground truth is a false negative
C2_Witness ==
    /\ pc = "image_ret"
    /\ Len(ret.gt) = 2 /\ Len(ret.pred) = 0
    /\ ret.out.raised = ""
    /\ ret.out.fn = 2 /\ ret.out.fp = 0

\* the other side of C2: predictions and no ground truth
C2_WitnessNoGroundTruth ==
    /\ pc = "image_ret"
    /\ Len(ret.gt) = 0 /\ Len(ret.pred) = 2
    /\ ret.out.raised = ""
    /\ ret.out.fp = 2 /\ ret.out.fn = 0

\* the positive-area ground truths of the image, as the label gives them
PositiveLabelRows(label) ==
    {i \in 1..Len(label) : label[i][5] = 1 /\ label[i][3] > 0 /\ label[i][4] > 0}

\* C3: the predictions (normalised centre form) are turned into pixel corners
\* the same way as the label rows, so that an image whose single ground truth
\* and single prediction are the same box of positive area (the scenario:
\* cx = cy = 0.5, w = h = 0.2, corners 40,40,60,60) has IOU 1, tp = 1, fp = 0
\* and fn = 0.
C3_PredictionLikeGroundTruth ==
    (/\ pc = "image_ret"
     /\ Len(ret.gt) = 1
     /\ Len(args.model_out) = 1
     /\ \E i \in PositiveLabelRows(args.label) :
            \A k \in 1..4 : args.model_out[1][k] = args.label[i][k])
        => /\ \A k \in 1..4 : ret.pred[1][k] = ret.gt[1][k]
           /\ ret.iou_image.rows[1][1] = One
           /\ ret.out.tp = 1 /\ ret.out.fp = 0 /\ ret.out.fn = 0

\* C5: every entry of the matrix get_iou_for_image builds is a number
\* between 0 and 1.
C5_IouMatrixInUnitInterval ==
    pc = "image_ret" =>
        \A i \in 1..Len(ret.iou_image.rows) :
            \A x \in RowEntries(ret.iou_image, i) :
                FGeq(x, Zero) /\ FLeq(x, One)

-----------------------------------------------------------------------------
(* The dataset aggregator and the metrics calculator.                      *)

\* lines 135-140: the totals before the first image
ZeroTotals ==
    [iou |-> Zero, iou_np |-> FALSE, gt_num |-> 0, tp |-> 0, fp |-> 0, fn |-> 0]

\* the mutant: gt_num is overwritten instead of added to
AccumulateOverwriteGtNum(t, o) ==
    [iou    |-> FAdd(t.iou, o.iou),
     iou_np |-> t.iou_np \/ o.iou_np,
     gt_num |-> o.gt_num,
     tp     |-> t.tp + o.tp,
     fp     |-> t.fp + o.fp,
     fn     |-> t.fn + o.fn]

\* the mutant: fp is overwritten instead of added to
AccumulateOverwriteFp(t, o) ==
    [iou    |-> FAdd(t.iou, o.iou),
     iou_np |-> t.iou_np \/ o.iou_np,
     gt_num |-> t.gt_num + o.gt_num,
     tp     |-> t.tp + o.tp,
     fp     |-> o.fp,
     fn     |-> t.fn + o.fn]

\* lines 146-151: the body of the loop.  A Python int plus a numpy float is
\* a numpy float.
Accumulate(t, o) ==
    [iou    |-> FAdd(t.iou, o.iou),
     iou_np |-> t.iou_np \/ o.iou_np,
     gt_num |-> t.gt_num + o.gt_num,
     tp     |-> t.tp + o.tp,
     fp     |-> t.fp + o.fp,
     fn     |-> t.fn + o.fn]

\* lines 142-153: the loop, on the per-image 5-tuples in the order of the
\* split
RECURSIVE MetricsParamsFrom(_, _)
MetricsParamsFrom(t, params) ==
    IF params = <<>> THEN t
    ELSE MetricsParamsFrom(Accumulate(t, Head(params)), Tail(params))

\* lines 134-153: get_metrics_params over a whole split, pairs being the
\* zip of the images and their labels
get_metrics_params(pairs) ==
    MetricsParamsFrom(ZeroTotals,
        [k \in 1..Len(pairs) |->
            get_one_image_metrics_params(pairs[k].label, pairs[k].model_out).out])

\* the mutant: a division that gives a value whatever the divisor, as
\* numpy's does
DivisionNeverRaises(divisor) == FALSE

\* Python's true division of ints and floats raises ZeroDivisionError when
\* the divisor is zero (lines 209-215)
DivisionRaises(divisor) == divisor = 0

\* x / k for a float x and an int k
FOver(x, k) == IF IsNaN(x) THEN NaN ELSE FDiv(x[1], x[2] * k)

FMul(x, y) == IF IsNaN(x) \/ IsNaN(y) THEN NaN ELSE FDiv(x[1] * y[1], x[2] * y[2])

\* x / y for two floats
FRatio(x, y) == IF IsNaN(x) \/ IsNaN(y) THEN NaN ELSE FDiv(x[1] * y[2], x[2] * y[1])

Raised(e) == [raised |-> e]

\* lines 208-217: calculate_metrics.  iou is a numpy float when some image
\* took the np.sum branch and a Python number otherwise; the counts are
\* Python ints, so every other division is Python's.
calculate_metrics(iou, iou_np, gt_num, tp, fp, fn) ==
    IF ~iou_np /\ DivisionRaises(tp) THEN Raised("ZeroDivisionError")
    ELSE IF DivisionRaises(gt_num) THEN Raised("ZeroDivisionError")
    ELSE IF DivisionRaises(tp + fp) THEN Raised("ZeroDivisionError")
    ELSE IF DivisionRaises(tp + fn) THEN Raised("ZeroDivisionError")
    ELSE
        LET avg_iou == FOver(iou, tp)
            accuracy == FDiv(tp, gt_num)
            precision == FDiv(tp, tp + fp)
            recall == FDiv(tp, tp + fn)
            sum == FAdd(precision, recall)
        IN IF DivisionRaises(sum[1]) THEN Raised("ZeroDivisionError")
           ELSE [raised    |-> "",
                 iou       |-> avg_iou,
                 accuracy  |-> accuracy,
                 precision |-> precision,
                 recall    |-> recall,
                 f1_score  |-> FRatio(FMul(<<2, 1>>, FMul(precision, recall)),
                                     sum)]

-----------------------------------------------------------------------------
(* Spec: one pass of get_metrics_params over a split, image by image, and  *)
(* calculate_metrics on its totals (eval_metrics, lines 127-130).          *)

Cell(box, objectness) == box \o <<objectness>>

\* the labels of the split's images: one ground truth, two ground truths in
\* the same place, none
SplitLabels ==
    {<<Cell(<<50, 50, 20, 20>>, 1), Cell(<<80, 80, 20, 20>>, 0)>>,
     <<Cell(<<50, 50, 20, 20>>, 1), Cell(<<50, 50, 20, 20>>, 1)>>,
     <<Cell(<<50, 50, 20, 20>>, 0), Cell(<<80, 80, 20, 20>>, 0)>>}

\* what the network gives for them: nothing, one row that matches the
\* ground truth exactly, a row that matches it at the threshold and one apart
SplitOutputs ==
    {<<>>,
     <<Cell(<<40, 40, 60, 60>>, 1)>>,
     <<Cell(<<40, 40, 60, 50>>, 1), Cell(<<70, 70, 90, 90>>, 1)>>}

SplitImages == {[label |-> l, model_out |-> o] : l \in SplitLabels, o \in SplitOutputs}

Init ==
    /\ pc = "loop"
    /\ args = None
    /\ ret = None
    /\ images = <<>>
    /\ totals = ZeroTotals

\* one iteration of the loop of get_metrics_params on the next pair
LoopBody ==
    /\ pc = "loop"
    /\ Len(images) < MaxImages
    /\ \E image \in SplitImages :
        LET params == get_one_image_metrics_params(image.label, image.model_out).out
        IN /\ args' = image
           /\ images' = Append(images, [label |-> image.label,
                                        model_out |-> image.model_out,
                                        params |-> params])
           /\ totals' = Accumulate(totals, params)
    /\ UNCHANGED <<pc, ret>>

\* the split is exhausted: get_metrics_params returns its totals
LoopExit ==
    /\ pc = "loop"
    /\ pc' = "calc"
    /\ UNCHANGED <<args, ret, images, totals>>

\* eval_metrics hands the totals to calculate_metrics
CalculateMetrics ==
    /\ pc = "calc"
    /\ ret' = calculate_metrics(totals.iou, totals.iou_np, totals.gt_num,
                                totals.tp, totals.fp, totals.fn)
    /\ pc' = "done"
    /\ UNCHANGED <<args, images, totals>>

Next == LoopBody \/ LoopExit \/ CalculateMetrics

Spec == Init /\ [][Next]_vars

\* the per-image 5-tuples of the images consumed so far
PerImage == [k \in 1..Len(images) |-> images[k].params]

RECURSIVE SumInt(_, _, _)
SumInt(per, I, f) ==
    IF I = {} THEN 0
    ELSE LET i == CHOOSE k \in I : TRUE IN per[i][f] + SumInt(per, I \ {i}, f)

RECURSIVE SumIou(_, _)
SumIou(per, I) ==
    IF I = {} THEN Zero
    ELSE LET i == CHOOSE k \in I : TRUE IN FAdd(per[i].iou, SumIou(per, I \ {i}))

FiveTuple(t) == <<t.iou, t.gt_num, t.tp, t.fp, t.fn>>

Permuted(pairs, p) == [k \in 1..Len(pairs) |-> pairs[p[k]]]

-----------------------------------------------------------------------------
(* SpecCalc: calculate_metrics called on given totals.                     *)

IouSums == {Zero, <<1, 2>>, <<3, 2>>}

InitCalc ==
    /\ pc = "calc_call"
    /\ \E iou \in IouSums, iou_np \in BOOLEAN, gt_num \in 0..MaxCount,
          tp \in 0..MaxCount, fp \in (-1)..MaxCount, fn \in 0..MaxCount :
            /\ tp + fp >= 0
            /\ args = [iou |-> iou, iou_np |-> iou_np, gt_num |-> gt_num,
                       tp |-> tp, fp |-> fp, fn |-> fn]
    /\ ret = None
    /\ images = None
    /\ totals = None

CallCalculateMetrics ==
    /\ pc = "calc_call"
    /\ ret' = calculate_metrics(args.iou, args.iou_np, args.gt_num,
                                args.tp, args.fp, args.fn)
    /\ pc' = "calc_ret"
    /\ UNCHANGED <<args, images, totals>>

NextCalc == CallCalculateMetrics

SpecCalc == InitCalc /\ [][NextCalc]_vars

\* C8: whenever tp is 0, whatever gt_num, fp, fn and iou_sum are,
\* calculate_metrics raises a division-by-zero error and returns no summary.
C8_ZeroTpRaises ==
    (pc = "calc_ret" /\ args.tp = 0) => ret = Raised("ZeroDivisionError")

\* tp = 0 with a numpy iou_sum and every other count positive: the divisions
\* of lines 209-214 go through and the one of line 215 raises
C8_Witness ==
    /\ pc = "calc_ret"
    /\ args.tp = 0 /\ args.iou_np
    /\ args.gt_num > 0 /\ args.fp > 0 /\ args.fn > 0
    /\ ret = Raised("ZeroDivisionError")

-----------------------------------------------------------------------------
(* The training loss: YOLO.custom_loss.  A tensor is the sequence of its   *)
(* cells (batch entries and grid cells flattened), a cell the sequence of  *)
(* its channels: channel k of the code is element k + 1.                   *)

\* tf.sqrt on the perfect squares the model draws widths and heights from
Sqrt(v) == CHOOSE r \in 0..v : r * r = v

SquaredDifference(a, b) == (a - b) * (a - b)

\* lines 283-285: p_true is bound only when there is a class channel
BindsPTrue(number_of_classes) == number_of_classes >= 1

\* the factor every term is multiplied by: p_true = true[:, :, 5]
\* (lines 284, 292, 301, 308, 313, 318)
MaskOf(true_cell) == true_cell[6]

\* lines 287-294, one cell
CoordTerm(t, p, alpha_coord) ==
    alpha_coord * (MaskOf(t) * (SquaredDifference(t[1], p[1])
                                + SquaredDifference(t[2], p[2])))

\* the mutant: the square root is taken of the true width and height only
DimTermNoSqrtOfPred(t, p, alpha_coord) ==
    alpha_coord * (MaskOf(t) * (SquaredDifference(Sqrt(t[3]), p[3])
                                + SquaredDifference(Sqrt(t[4]), p[4])))

\* lines 296-305, one cell
DimTerm(t, p, alpha_coord) ==
    alpha_coord * (MaskOf(t) * (SquaredDifference(Sqrt(t[3]), Sqrt(p[3]))
                                + SquaredDifference(Sqrt(t[4]), Sqrt(p[4]))))

\* lines 308-309, one cell
ObjTerm(t, p) == MaskOf(t) * SquaredDifference(t[5], p[5])

\* lines 311-315, one cell
NoObjTerm(t, p, alpha_noobj) == alpha_noobj * (MaskOf(t) * SquaredDifference(t[5], p[5]))

\* lines 318-319, one cell
ClassTerm(t, p) == MaskOf(t) * SquaredDifference(t[6], p[6])

\* np.sum of a tensor of numbers
RECURSIVE SumSeq(_)
SumSeq(v) == IF v = <<>> THEN 0 ELSE Head(v) + SumSeq(Tail(v))

\* lines 255-321: custom_loss.  Reading p_true at line 292 when line 284 did
\* not bind it raises UnboundLocalError.
custom_loss(true, pred, number_of_classes, alpha_coord, alpha_noobj) ==
    IF ~BindsPTrue(number_of_classes) THEN Raised("UnboundLocalError")
    ELSE
        LET cells == 1..Len(true)
            loss0 == 0
            loss1 == loss0 + SumSeq([k \in cells |->
                                CoordTerm(true[k], pred[k], alpha_coord)])
            loss2 == loss1 + SumSeq([k \in cells |->
                                DimTerm(true[k], pred[k], alpha_coord)])
            loss3 == IF number_of_classes >= 0
                     THEN loss2 + SumSeq([k \in cells |-> ObjTerm(true[k], pred[k])])
                                + SumSeq([k \in cells |->
                                    NoObjTerm(true[k], pred[k], alpha_noobj)])
                     ELSE loss2
            loss4 == IF number_of_classes >= 1
                     THEN loss3 + SumSeq([k \in cells |-> ClassTerm(true[k], pred[k])])
                     ELSE loss3
        IN [raised |-> "", loss |-> loss4]

-----------------------------------------------------------------------------
(* SpecLoss: custom_loss called on one pair of tensors.                    *)

\* number_of_classes of the configuration
ClassCounts == {0, 1}

\* (alpha_coord, alpha_noobj) of the configuration
Alphas == {<<1, 1>>, <<5, 2>>}

\* the cells of a tensor: [x, y, w, h, objectness(, class probability)]
LossCells(number_of_classes) ==
    {<<xw[1], 0, xw[2], 1, c>> \o (IF number_of_classes >= 1 THEN <<p>> ELSE <<>>) :
        xw \in {<<0, 1>>, <<1, 4>>}, c \in {0, 1}, p \in {0, 1}}

InitLoss ==
    /\ pc = "loss_call"
    /\ \E nc \in ClassCounts, alpha \in Alphas, n \in 1..MaxLossCells :
        \E true \in [1..n -> LossCells(nc)], pred \in [1..n -> LossCells(nc)] :
            args = [true |-> true, pred |-> pred, number_of_classes |-> nc,
                    alpha_coord |-> alpha[1], alpha_noobj |-> alpha[2]]
    /\ ret = None
    /\ images = None
    /\ totals = None

CallCustomLoss ==
    /\ pc = "loss_call"
    /\ ret' = custom_loss(args.true, args.pred, args.number_of_classes,
                          args.alpha_coord, args.alpha_noobj)
    /\ pc' = "loss_ret"
    /\ UNCHANGED <<args, images, totals>>

NextLoss == CallCustomLoss

SpecLoss == InitLoss /\ [][NextLoss]_vars

\* what a cell adds to the loss when every term is masked by the true
\* objectness (channel 4): nothing when it is 0, all its terms when it is 1
ObjectnessMasked(t, p, number_of_classes, alpha_coord, alpha_noobj) ==
    t[5] * (alpha_coord * (SquaredDifference(t[1], p[1]) + SquaredDifference(t[2], p[2]))
            + alpha_coord * (SquaredDifference(Sqrt(t[3]), Sqrt(p[3]))
                             + SquaredDifference(Sqrt(t[4]), Sqrt(p[4])))
            + SquaredDifference(t[5], p[5])
            + alpha_noobj * SquaredDifference(t[5], p[5])
            + (IF number_of_classes >= 1 THEN SquaredDifference(t[6], p[6]) ELSE 0))

RECURSIVE ObjectnessMaskedLoss(_, _, _, _, _)
ObjectnessMaskedLoss(true, pred, nc, alpha_coord, alpha_noobj) ==
    IF true = <<>> THEN 0
    ELSE ObjectnessMasked(Head(true), Head(pred), nc, alpha_coord, alpha_noobj)
            + ObjectnessMaskedLoss(Tail(true), Tail(pred), nc, alpha_coord, alpha_noobj)

\* C9: every term of custom_loss is masked by the true objectness (channel 4
\* of the true tensor): a cell whose true objectness is 0 adds 0 to the loss
\* whatever its other values, and a cell whose true objectness is 1 adds its
\* full coordinate, dimension, confidence and class terms.
C9_MaskedByObjectness ==
    (pc = "loss_ret" /\ args.number_of_classes >= 1) =>
        /\ ret.raised = ""
        /\ ret.loss = ObjectnessMaskedLoss(args.true, args.pred, args.number_of_classes,
                                           args.alpha_coord, args.alpha_noobj)

\* C10: with number_of_classes = 0 custom_loss returns a scalar, the sum of
\* the coordinate, dimension and two objectness terms without the
\* class-probability term, which is added only when number_of_classes >= 1.
C10_NoClassesLoss ==
    (pc = "loss_ret" /\ args.number_of_classes = 0) =>
        /\ ret.raised = ""
        /\ ret.loss = ObjectnessMaskedLoss(args.true, args.pred, 0,
                                           args.alpha_coord, args.alpha_noobj)

-----------------------------------------------------------------------------
(* SpecEval: eval_pickles_metrics on an EvalMetrics object, as the main    *)
(* block runs it (lines 261-267).  args holds the object's attributes, the *)
(* three pickled splits and the number of the split being evaluated; ret   *)
(* holds what was printed and the exception that ended the call, if any.   *)

\* lines 68-81: the attributes __init__ sets on the object
InitAttributes ==
    {"iou_threshold", "prob_threshold", "image_size", "number_of_annotations",
     "network", "train_pickle_name", "validation_pickle_name", "test_pickle_name"}

\* reading self.<name>: an attribute that was never set raises AttributeError
HasAttribute(self, name) == name \in self

\* the images a pickled split is made of
PassImages == {im \in SplitImages : Len(im.model_out) <= 1}

\* the (data, labels) of one pickle, as pairs
PickledSplits == SeqsOf(PassImages, 1, MaxSplitImages)

\* lines 87, 90, 93: the header printed before each split
Header(split) ==
    [text |-> <<"Train:", "Validation:", "Test:">>[split], values |-> <<>>]

\* lines 100-101: the summary line
SummaryLine(m) ==
    [text   |-> "IOU: {}, Accuracy: {}, Precision: {}, Recall: {}, F1 Score: {}",
     values |-> <<m.iou, m.accuracy, m.precision, m.recall, m.f1_score>>]

\* lines 122-132: eval_metrics.  Line 124 reads self.grid_size.
eval_metrics(self, pairs) ==
    IF ~HasAttribute(self, "grid_size") THEN Raised("AttributeError")
    ELSE LET t == get_metrics_params(pairs)
         IN calculate_metrics(t.iou, t.iou_np, t.gt_num, t.tp, t.fp, t.fn)

InitEval ==
    /\ pc = "ev_load"
    /\ \E train \in PickledSplits, validation \in PickledSplits, test \in PickledSplits :
        /\ \A s \in {train, validation, test} : get_metrics_params(s).tp > 0
        /\ args = [self |-> InitAttributes,
                   pickles |-> <<train, validation, test>>,
                   split |-> 1]
    /\ ret = [stdout |-> <<>>, raised |-> ""]
    /\ images = None
    /\ totals = None

\* lines 84-85: load_data reads the three pickles
LoadData ==
    /\ pc = "ev_load"
    /\ images' = args.pickles
    /\ pc' = "ev_header"
    /\ UNCHANGED <<args, ret, totals>>

\* lines 87, 90, 93: print the split's header
PrintHeader ==
    /\ pc = "ev_header"
    /\ ret' = [ret EXCEPT !.stdout = Append(@, Header(args.split))]
    /\ pc' = "ev_eval"
    /\ UNCHANGED <<args, images, totals>>

\* lines 96-101: eval_dataset_metrics on the split; an exception leaves
\* eval_pickles_metrics, which catches nothing
EvalDatasetMetrics ==
    /\ pc = "ev_eval"
    /\ LET m == eval_metrics(args.self, images[args.split])
       IN IF m.raised # ""
          THEN /\ ret' = [ret EXCEPT !.raised = m.raised]
               /\ pc' = "ev_raised"
               /\ UNCHANGED args
          ELSE /\ ret' = [ret EXCEPT !.stdout = Append(@, SummaryLine(m))]
               /\ pc' = IF args.split = 3 THEN "ev_done" ELSE "ev_header"
               /\ args' = [args EXCEPT !.split = IF @ = 3 THEN 3 ELSE @ + 1]
    /\ UNCHANGED <<images, totals>>

NextEval == LoadData \/ PrintHeader \/ EvalDatasetMetrics

SpecEval == InitEval /\ [][NextEval]_vars

\* the lines printed are headers and summaries in turn, for Train, Validation
\* and Test in this order
PrintsThreeSummaries(stdout) ==
    /\ Len(stdout) = 6
    /\ \A i \in 1..3 :
        /\ stdout[2 * i - 1] = Header(i)
        /\ stdout[2 * i].text = SummaryLine([iou |-> Zero, accuracy |-> Zero,
                                             precision |-> Zero, recall |-> Zero,
                                             f1_score |-> Zero]).text

\* C12: eval_pickles_metrics, on an object built from a valid configuration
\* and three splits that each yield tp > 0, ends having printed exactly one
\* summary line per split, after the split's header, for Train, Validation
\* and Test in this order.
C12_OneSummaryPerSplit ==
    pc \in {"ev_done", "ev_raised"} =>
        /\ ret.raised = ""
        /\ PrintsThreeSummaries(ret.stdout)

-----------------------------------------------------------------------------
(* SpecSplits: the three passes eval_pickles_metrics asks for (lines 88,   *)
(* 91, 94), each one get_metrics_params over a split followed by           *)
(* calculate_metrics (lines 127-130).  args holds the number of the split  *)
(* and the totals the pass before ended with.                              *)

\* the mutant: the totals of the pass before are carried into the next one
CarriedTotals(previous) == previous

\* lines 135-140: iou, gt_num, tp, fp and fn are locals of
\* get_metrics_params, bound to 0 at every call whatever the call before
\* left
FreshTotals(previous) == ZeroTotals

InitSplits ==
    /\ pc = "sp_loop"
    /\ args = [split |-> 1, previous |-> ZeroTotals]
    /\ ret = None
    /\ images = <<>>
    /\ totals = FreshTotals(ZeroTotals)

\* one iteration of the loop of get_metrics_params on the split's next pair
SplitLoopBody ==
    /\ pc = "sp_loop"
    /\ Len(images) < MaxSplitImages
    /\ \E image \in PassImages :
        LET params == get_one_image_metrics_params(image.label, image.model_out).out
        IN /\ images' = Append(images, [label |-> image.label,
                                        model_out |-> image.model_out,
                                        params |-> params])
           /\ totals' = Accumulate(totals, params)
    /\ UNCHANGED <<pc, args, ret>>

\* the split is exhausted: get_metrics_params returns
SplitLoopExit ==
    /\ pc = "sp_loop"
    /\ pc' = "sp_calc"
    /\ UNCHANGED <<args, ret, images, totals>>

\* lines 129-130: the split's summary
SplitCalculate ==
    /\ pc = "sp_calc"
    /\ ret' = calculate_metrics(totals.iou, totals.iou_np, totals.gt_num,
                                totals.tp, totals.fp, totals.fn)
    /\ pc' = "sp_done"
    /\ UNCHANGED <<args, images, totals>>

\* lines 91, 94: the next split's pass begins with a new call of
\* get_metrics_params
NextSplit ==
    /\ pc = "sp_done"
    /\ args.split < 3
    /\ args' = [split |-> args.split + 1, previous |-> totals]
    /\ images' = <<>>
    /\ totals' = FreshTotals(totals)
    /\ ret' = None
    /\ pc' = "sp_loop"

NextSplits == SplitLoopBody \/ SplitLoopExit \/ SplitCalculate \/ NextSplit

SpecSplits == InitSplits /\ [][NextSplits]_vars

\* the totals of the images of the current split alone
OwnTotals ==
    LET I == 1..Len(images)
    IN [iou    |-> SumIou(PerImage, I),
        iou_np |-> \E k \in I : PerImage[k].iou_np,
        gt_num |-> SumInt(PerImage, I, "gt_num"),
        tp     |-> SumInt(PerImage, I, "tp"),
        fp     |-> SumInt(PerImage, I, "fp"),
        fn     |-> SumInt(PerImage, I, "fn")]

\* C13: the running totals start at 0 for every split: in each of the passes
\* for train, validation and test the totals are those of the split's own
\* images and labels, and so is its summary, whatever the splits evaluated
\* before held.
C13_TotalsOfOwnSplitOnly ==
    pc \in {"sp_loop", "sp_calc", "sp_done"} =>
        /\ totals = OwnTotals
        /\ pc = "sp_done" =>
            ret = calculate_metrics(OwnTotals.iou, OwnTotals.iou_np, OwnTotals.gt_num,
                                    OwnTotals.tp, OwnTotals.fp, OwnTotals.fn)

\* the test split's summary is out, after a validation split that had true
\* and false positives of its own
C13_Witness ==
    /\ pc = "sp_done"
    /\ args.split = 3
    /\ args.previous.tp = 1 /\ args.previous.fp = 1 /\ args.previous.fn = 0
    /\ Len(images) = 2
    /\ totals.tp = 2 /\ totals.fp = -1 /\ totals.fn = 1
    /\ ret.raised = "" /\ ret.recall = <<2, 3>>

-----------------------------------------------------------------------------
(* The counts of a dataset pass (Spec).                                    *)

\* C14: after the per-image matcher and after aggregating any sequence of
\* images, tp, fp and fn are non-negative counts, also when several ground
\* truths are matched by the same prediction, so that the precision
\* tp / (tp + fp) never exceeds 1.
C14_CountsNonNegative ==
    pc \in {"loop", "calc", "done"} =>
        /\ \A k \in 1..Len(images) :
            PerImage[k].tp >= 0 /\ PerImage[k].fp >= 0 /\ PerImage[k].fn >= 0
        /\ totals.tp >= 0 /\ totals.fp >= 0 /\ totals.fn >= 0
        /\ (pc = "done" /\ ret.raised = "") => FLeq(ret.precision, One)

\* C15: after aggregating any sequence of images, images without ground
\* truths or without predictions included, gt_num = tp + fn, so that the
\* accuracy and the recall calculate_metrics returns are equal.
C15_AccuracyIsRecall ==
    pc \in {"loop", "calc", "done"} =>
        /\ totals.gt_num = totals.tp + totals.fn
        /\ (pc = "done" /\ ret.raised = "") => ret.accuracy = ret.recall

\* a summary over three images: one matched, one without predictions and one
\* without ground truths
C15_Witness ==
    /\ pc = "done"
    /\ Len(images) = 3
    /\ \E k \in 1..3 : Len(images[k].model_out) = 0 /\ PerImage[k].fn = 1
    /\ \E k \in 1..3 : PerImage[k].gt_num = 0 /\ PerImage[k].fp = 1
    /\ totals.gt_num = 2 /\ totals.tp = 1 /\ totals.fn = 1
    /\ ret.raised = ""
    /\ ret.accuracy = <<1, 2>> /\ ret.recall = <<1, 2>>

=============================================================================
